---- MODULE Spec2Model ----
(***************************************************************************)
(* Model of two datadog-ci commands.                                       *)
(*  - synthetics run-test (RunTestCommand.execute): test selection,        *)
(*    optional tunnel, trigger, poll, evaluation, reporting and tunnel     *)
(*    teardown (Spec); the per-test config merge of getTestsList           *)
(*    (SpecMerge); the result poller waitForResults (SpecPoll).            *)
(*  - dependencies upload (UploadCommand.execute): input validation and    *)
(*    the retried upload request (SpecUpload).                             *)
(***************************************************************************)
EXTENDS Integers, Sequences, FiniteSets, TLC

\* ------------------------------------------------------------------ bounds
\* Largest number of tests one run selects (public ids are 1..MaxTests).
MaxTests == 3

\* Largest value a config entry takes (values are 1..MaxValue).
MaxValue == 2

\* Largest number of execution instances (TriggerResults) one poll waits for.
MaxInstances == 3

\* Number of public ids the polled instances belong to.
MaxPolledTests == 2

\* Largest polling timeout, counted in poll intervals.
MaxTimeout == 2

\* ------------------------------------------------------- program constants
BLOCKING == "blocking"
NON_BLOCKING == "nonblocking"
SKIPPED == "skipped"
UNDEFINED == "undefined"

\* Values of options.ci?.executionRule a fetched (not skipped) test carries.
ExecutionRules == {BLOCKING, NON_BLOCKING, UNDEFINED}

\* PollResult lists of one test, each result reduced to result.passed.
PollResultLists == {<<TRUE>>, <<FALSE>>, <<TRUE, FALSE>>}

VARIABLES
    pc,                       \* position of execute()
    publicIds,                \* this.publicIds (command line)
    shouldOpenTunnel,         \* this.shouldOpenTunnel: "undefined", "true", "false"
    configTunnel,             \* this.config.tunnel
    testsToTrigger,           \* TriggerConfig list of line 58
    tests,                    \* Test list of line 66, sorted in place at line 107
    overriddenTestsToTrigger, \* overrides submitted by runTests
    summary,                  \* Summary counters
    tunnel,                   \* the Tunnel object of line 69 and the calls made on it
    submitted,                \* the overrides runTests was called with
    triggers,                 \* what runTests returned
    results,                  \* what waitForResults returned, by public_id
    idx,                      \* position of the for loop of line 118
    hasSucceeded,             \* line 117
    reported,                 \* events received by this.reporter, in order
    calls,                    \* remote / collaborator calls issued, in order
    ret,                      \* value returned by execute (-1: none)
    uncaught                  \* execute rejected with an exception

runVars == <<pc, publicIds, shouldOpenTunnel, configTunnel, testsToTrigger, tests,
             overriddenTestsToTrigger, summary, tunnel, submitted, triggers, results,
             idx, hasSucceeded, reported, calls, ret, uncaught>>

\* The effective config computed by getTestsList for one test of a suite.
VARIABLES
    mpc,                      \* position of the map callback of lines 216-220
    globalConfig,             \* this.config.global
    testConfig,               \* test.config of the suite file
    effectiveConfig           \* the config of the TriggerConfig built at line 218

mergeVars == <<mpc, globalConfig, testConfig, effectiveConfig>>

\* The result poller (waitForResults).
VARIABLES
    wpc,                      \* position of the poll loop
    owner,                    \* the TriggerResults: result_id -> public_id
    timeoutMs,                \* the timeout, in poll intervals
    elapsed,                  \* time since the loop began, in poll intervals
    outstanding,              \* result ids not resolved yet
    polled,                   \* the map to return: public_id -> PollResult list
    pollCalls,                \* pollResults calls issued
    pollErrors,               \* pollResults calls that failed
    outcome                   \* "none", "COMPLETE" or "TIMEOUT"

pollVars == <<wpc, owner, timeoutMs, elapsed, outstanding, polled, pollCalls,
              pollErrors, outcome>>

\* The dependencies upload command (UploadCommand).
VARIABLES
    upc,                      \* position of UploadCommand.execute
    opts,                     \* the command's options, environment and file system
    attempts,                 \* api.uploadDependencies calls made
    onRetryCalls,             \* onRetry callbacks run
    errors,                   \* the errors the attempts threw, in order
    metrics,                  \* increments of the success, failed and retries metrics
    exitCode                  \* value returned by execute (-1: none, 0: undefined)

uploadVars == <<upc, opts, attempts, onRetryCalls, errors, metrics, exitCode>>

otherThanRun == <<mergeVars, pollVars, uploadVars>>
otherThanMerge == <<runVars, pollVars, uploadVars>>
otherThanPoll == <<runVars, mergeVars, uploadVars>>
otherThanUpload == <<runVars, mergeVars, pollVars>>

vars == <<runVars, mergeVars, pollVars, uploadVars>>

\* ---------------------------------------------------------------- helpers
Range(s) == {s[k] : k \in 1..Len(s)}

\* <<1, ..., n>>
Ids(n) == [k \in 1..n |-> k]

Ev(type, id) == [type |-> type, id |-> id]

NoTunnel == [defined |-> FALSE, start |-> "none", stopCalls |-> 0]

\* utils.hasTestSucceeded: every PollResult of the test passed.
hasTestSucceeded(testResults) ==
    \A k \in 1..Len(testResults) : testResults[k]

isNonBlocking(t) == t.executionRule = NON_BLOCKING

\* sortTestsByOutcome with the blocking tie-break inverted (line 238).
sortTestsByOutcomeBlockingFirst(res, t1, t2) ==
    LET success1 == hasTestSucceeded(res[t1.public_id])
        success2 == hasTestSucceeded(res[t2.public_id])
        isNonBlockingTest1 == isNonBlocking(t1)
        isNonBlockingTest2 == isNonBlocking(t2)
    IN  IF success1 = success2
        THEN IF isNonBlockingTest1 = isNonBlockingTest2
             THEN 0
             ELSE IF isNonBlockingTest1 THEN 1 ELSE -1
        ELSE IF success1 THEN -1 ELSE 1

\* sortTestsByOutcome without the equality test of lines 234-236.
sortTestsByOutcomeNeverTies(res, t1, t2) ==
    LET success1 == hasTestSucceeded(res[t1.public_id])
        success2 == hasTestSucceeded(res[t2.public_id])
        isNonBlockingTest1 == isNonBlocking(t1)
    IN  IF success1 = success2
        THEN IF isNonBlockingTest1 THEN -1 ELSE 1
        ELSE IF success1 THEN -1 ELSE 1

\* The comparator returned by sortTestsByOutcome(results).
sortTestsByOutcome(res, t1, t2) ==
    LET success1 == hasTestSucceeded(res[t1.public_id])
        success2 == hasTestSucceeded(res[t2.public_id])
        isNonBlockingTest1 == isNonBlocking(t1)
        isNonBlockingTest2 == isNonBlocking(t2)
    IN  IF success1 = success2
        THEN IF isNonBlockingTest1 = isNonBlockingTest2
             THEN 0
             ELSE IF isNonBlockingTest1 THEN -1 ELSE 1
        ELSE IF success1 THEN -1 ELSE 1

\* Array.prototype.sort(cmp): a stable insertion of t into the sorted prefix s.
RECURSIVE InsertSorted(_, _, _)
InsertSorted(res, s, t) ==
    IF s = <<>> THEN <<t>>
    ELSE IF sortTestsByOutcome(res, s[Len(s)], t) <= 0
         THEN Append(s, t)
         ELSE Append(InsertSorted(res, SubSeq(s, 1, Len(s) - 1), t), s[Len(s)])

RECURSIVE SortTests(_, _)
SortTests(res, ts) ==
    IF ts = <<>> THEN <<>>
    ELSE InsertSorted(res, SortTests(res, SubSeq(ts, 1, Len(ts) - 1)), ts[Len(ts)])

\* The condition of line 70.
UseTunnel ==
    (shouldOpenTunnel = "undefined" /\ configTunnel) \/ shouldOpenTunnel = "true"

\* ------------------------------------------------------------------- Init
\* getTestsList is not running.
MergeIdle ==
    /\ mpc = "idle"
    /\ globalConfig = <<>>
    /\ testConfig = <<>>
    /\ effectiveConfig = <<>>

\* waitForResults is not running.
PollIdle ==
    /\ wpc = "idle"
    /\ owner = <<>>
    /\ timeoutMs = 0
    /\ elapsed = 0
    /\ outstanding = {}
    /\ polled = <<>>
    /\ pollCalls = 0
    /\ pollErrors = 0
    /\ outcome = "none"

\* A dependencies upload command that has everything it needs.
DefaultOpts ==
    [source |-> "snyk", service |-> TRUE, appKey |-> TRUE, apiKey |-> TRUE,
     releaseVersion |-> TRUE, fileExists |-> TRUE, dryRun |-> FALSE]

\* UploadCommand.execute is not running.
UploadIdle ==
    /\ upc = "idle"
    /\ opts = DefaultOpts
    /\ attempts = 0
    /\ onRetryCalls = 0
    /\ errors = <<>>
    /\ metrics = [success |-> 0, failed |-> 0, retries |-> 0]
    /\ exitCode = -1

Init ==
    /\ MergeIdle
    /\ PollIdle
    /\ UploadIdle
    /\ pc = "select"
    /\ publicIds \in {Ids(n) : n \in 0..MaxTests}
    /\ shouldOpenTunnel \in {"undefined", "true", "false"}
    /\ configTunnel \in BOOLEAN
    /\ testsToTrigger = <<>>
    /\ tests = <<>>
    /\ overriddenTestsToTrigger = <<>>
    /\ summary = [passed |-> 0, failed |-> 0, skipped |-> 0]
    /\ tunnel = NoTunnel
    /\ submitted = <<>>
    /\ triggers = "none"
    /\ results = <<>>
    /\ idx = 0
    /\ hasSucceeded = TRUE
    /\ reported = <<>>
    /\ calls = <<>>
    /\ ret = -1
    /\ uncaught = FALSE

\* ---------------------------------------------------------------- actions
\* An exception leaves execute outside of the try of line 102.
Reject(call) ==
    /\ calls' = Append(calls, call)
    /\ uncaught' = TRUE
    /\ pc' = "done"

\* SelectTests running the discovery first and using the command line's public
\* ids only when it finds nothing.
SelectTestsDiscoveryFirst ==
    /\ pc = "select"
    /\ \E discovered \in {Ids(n) : n \in 0..MaxTests} :
         LET publicIdsFromCli ==
                 [k \in 1..Len(publicIds) |->
                     [suite |-> "CLI Suite", config |-> "global", id |-> publicIds[k]]]
             fromList ==
                 [k \in 1..Len(discovered) |->
                     [suite |-> "discovered", config |-> "getTestsList", id |-> discovered[k]]]
             chosen == IF Len(fromList) # 0 THEN fromList ELSE publicIdsFromCli
         IN  /\ testsToTrigger' = chosen
             /\ calls' = Append(calls, "getTestsList")
             /\ IF Len(chosen) = 0
                THEN /\ reported' = Append(reported, Ev("logNoTestSuites", 0))
                     /\ ret' = 0
                     /\ pc' = "done"
                ELSE /\ pc' = "getTests"
                     /\ UNCHANGED <<reported, ret>>
    /\ UNCHANGED otherThanRun
    /\ UNCHANGED <<publicIds, shouldOpenTunnel, configTunnel, tests,
                   overriddenTestsToTrigger, summary, tunnel, submitted, triggers,
                   results, idx, hasSucceeded, uncaught>>

\* SelectTests without the early return of lines 60-64.
SelectTestsNoEarlyReturn ==
    /\ pc = "select"
    /\ \E discovered \in {Ids(n) : n \in 0..MaxTests} :
         LET publicIdsFromCli ==
                 [k \in 1..Len(publicIds) |-> [suite |-> "CLI Suite", config |-> "global", id |-> publicIds[k]]]
             fromList ==
                 [k \in 1..Len(discovered) |-> [suite |-> "discovered", config |-> "getTestsList", id |-> discovered[k]]]
             chosen == IF Len(publicIdsFromCli) # 0 THEN publicIdsFromCli ELSE fromList
         IN  /\ Len(publicIdsFromCli) # 0 => discovered = <<>>
             /\ testsToTrigger' = chosen
             /\ calls' = IF Len(publicIdsFromCli) # 0 THEN calls
                         ELSE Append(calls, "getTestsList")
             /\ pc' = "getTests"
    /\ UNCHANGED otherThanRun
    /\ UNCHANGED <<publicIds, shouldOpenTunnel, configTunnel, tests,
                   overriddenTestsToTrigger, summary, tunnel, submitted, triggers,
                   results, idx, hasSucceeded, uncaught, reported, ret>>

\* Lines 46-64: the tests to trigger come from the command line, or from
\* getTestsList when no public id was given; none at all ends the run with 0.
SelectTests ==
    /\ pc = "select"
    /\ \E discovered \in {Ids(n) : n \in 0..MaxTests} :
         LET publicIdsFromCli ==
                 [k \in 1..Len(publicIds) |-> [suite |-> "CLI Suite", config |-> "global", id |-> publicIds[k]]]
             fromList ==
                 [k \in 1..Len(discovered) |-> [suite |-> "discovered", config |-> "getTestsList", id |-> discovered[k]]]
             chosen == IF Len(publicIdsFromCli) # 0 THEN publicIdsFromCli ELSE fromList
         IN  /\ Len(publicIdsFromCli) # 0 => discovered = <<>>
             /\ testsToTrigger' = chosen
             /\ calls' = IF Len(publicIdsFromCli) # 0 THEN calls
                         ELSE Append(calls, "getTestsList")
             /\ IF Len(chosen) = 0
                THEN /\ reported' = Append(reported, Ev("logNoTestSuites", 0))
                     /\ ret' = 0
                     /\ pc' = "done"
                ELSE /\ pc' = "getTests"
                     /\ UNCHANGED <<reported, ret>>
    /\ UNCHANGED otherThanRun
    /\ UNCHANGED <<publicIds, shouldOpenTunnel, configTunnel, tests,
                   overriddenTestsToTrigger, summary, tunnel, submitted, triggers,
                   results, idx, hasSucceeded, uncaught>>

\* Lines 54-58: parseConfigFile, getApiHelper (line 164) or getTestsList throws.
SelectTestsThrows ==
    /\ pc = "select"
    /\ Reject("selectError")
    /\ UNCHANGED otherThanRun
    /\ UNCHANGED <<publicIds, shouldOpenTunnel, configTunnel, testsToTrigger, tests,
                   overriddenTestsToTrigger, summary, tunnel, submitted, triggers,
                   results, idx, hasSucceeded, reported, ret>>

\* Keeps the entries of s whose fate is not SKIPPED, in order.
RECURSIVE Fetched(_, _)
Fetched(s, fate) ==
    IF s = <<>> THEN <<>>
    ELSE LET rest == Fetched(SubSeq(s, 1, Len(s) - 1), fate)
             last == s[Len(s)]
         IN  IF fate[last.id] = SKIPPED THEN rest
             ELSE Append(rest, [public_id |-> last.id, executionRule |-> fate[last.id]])

\* Lines 66-67: getTestsToTrigger fetches the tests and drops the skipped ones.
GetTestsToTrigger ==
    /\ pc = "getTests"
    /\ \E fate \in [{t.id : t \in Range(testsToTrigger)} -> ExecutionRules \cup {SKIPPED}] :
         /\ tests' = Fetched(testsToTrigger, fate)
         /\ overriddenTestsToTrigger' =
                [k \in 1..Len(tests') |->
                    [public_id |-> tests'[k].public_id, tunnel |-> FALSE]]
         /\ summary' = [summary EXCEPT !.skipped = Len(testsToTrigger) - Len(tests')]
    /\ calls' = Append(calls, "getTestsToTrigger")
    /\ pc' = IF UseTunnel THEN "presign" ELSE "trigger"
    /\ UNCHANGED otherThanRun
    /\ UNCHANGED <<publicIds, shouldOpenTunnel, configTunnel, testsToTrigger, tunnel,
                   submitted, triggers, results, idx, hasSucceeded, reported, ret,
                   uncaught>>

\* Line 66: getTestsToTrigger throws.
GetTestsToTriggerThrows ==
    /\ pc = "getTests"
    /\ Reject("getTestsToTrigger")
    /\ UNCHANGED otherThanRun
    /\ UNCHANGED <<publicIds, shouldOpenTunnel, configTunnel, testsToTrigger, tests,
                   overriddenTestsToTrigger, summary, tunnel, submitted, triggers,
                   results, idx, hasSucceeded, reported, ret>>

\* Lines 70-75: the tunnel is requested; the presigned URL is obtained.
GetPresignedURL ==
    /\ pc = "presign"
    /\ reported' = Append(reported, Ev("logTunnel", 0))
    /\ calls' = Append(calls, "getPresignedURL")
    /\ pc' = "tunnelStart"
    /\ UNCHANGED otherThanRun
    /\ UNCHANGED <<publicIds, shouldOpenTunnel, configTunnel, testsToTrigger, tests,
                   overriddenTestsToTrigger, summary, tunnel, submitted, triggers,
                   results, idx, hasSucceeded, ret, uncaught>>

\* Line 75: api.getPresignedURL throws, outside of any try.
GetPresignedURLThrows ==
    /\ pc = "presign"
    /\ reported' = Append(reported, Ev("logTunnel", 0))
    /\ Reject("getPresignedURL")
    /\ UNCHANGED otherThanRun
    /\ UNCHANGED <<publicIds, shouldOpenTunnel, configTunnel, testsToTrigger, tests,
                   overriddenTestsToTrigger, summary, tunnel, submitted, triggers,
                   results, idx, hasSucceeded, ret>>

\* TunnelStart setting the TunnelInfo on the first override only.
TunnelStartFirstOverrideOnly ==
    /\ pc = "tunnelStart"
    /\ tunnel' = [defined |-> TRUE, start |-> "ok", stopCalls |-> 0]
    /\ calls' = Append(calls, "tunnel.start")
    /\ overriddenTestsToTrigger' =
           [k \in 1..Len(overriddenTestsToTrigger) |->
               [overriddenTestsToTrigger[k] EXCEPT !.tunnel = (k = 1)]]
    /\ pc' = "trigger"
    /\ UNCHANGED otherThanRun
    /\ UNCHANGED <<publicIds, shouldOpenTunnel, configTunnel, testsToTrigger, tests,
                   summary, submitted, triggers, results, idx, hasSucceeded,
                   reported, ret, uncaught>>

\* Lines 77-82: the Tunnel is created and started, and its TunnelInfo is set on
\* every override.
TunnelStart ==
    /\ pc = "tunnelStart"
    /\ tunnel' = [defined |-> TRUE, start |-> "ok", stopCalls |-> 0]
    /\ calls' = Append(calls, "tunnel.start")
    /\ overriddenTestsToTrigger' =
           [k \in 1..Len(overriddenTestsToTrigger) |->
               [overriddenTestsToTrigger[k] EXCEPT !.tunnel = TRUE]]
    /\ pc' = "trigger"
    /\ UNCHANGED otherThanRun
    /\ UNCHANGED <<publicIds, shouldOpenTunnel, configTunnel, testsToTrigger, tests,
                   summary, submitted, triggers, results, idx, hasSucceeded,
                   reported, ret, uncaught>>

\* TunnelStartFails falling back to a run without tunnel instead of returning.
TunnelStartFailsFallsBack ==
    /\ pc = "tunnelStart"
    /\ tunnel' = [defined |-> TRUE, start |-> "failed", stopCalls |-> 0]
    /\ calls' = Append(calls, "tunnel.start")
    /\ reported' = Append(reported, Ev("error", 0))
    /\ pc' = "trigger"
    /\ UNCHANGED otherThanRun
    /\ UNCHANGED <<publicIds, shouldOpenTunnel, configTunnel, testsToTrigger, tests,
                   overriddenTestsToTrigger, summary, submitted, triggers, results,
                   idx, hasSucceeded, ret, uncaught>>

\* Lines 78-79 and 83-87: tunnel.start() fails; the error is reported and
\* execute returns 1.
TunnelStartFails ==
    /\ pc = "tunnelStart"
    /\ tunnel' = [defined |-> TRUE, start |-> "failed", stopCalls |-> 0]
    /\ calls' = Append(calls, "tunnel.start")
    /\ reported' = Append(reported, Ev("error", 0))
    /\ ret' = 1
    /\ pc' = "done"
    /\ UNCHANGED otherThanRun
    /\ UNCHANGED <<publicIds, shouldOpenTunnel, configTunnel, testsToTrigger, tests,
                   overriddenTestsToTrigger, summary, submitted, triggers, results,
                   idx, hasSucceeded, uncaught>>

\* Lines 89-100: the trigger request, then the two checks made on its answer.
RunTests ==
    /\ pc = "trigger"
    /\ calls' = Append(calls, "runTests")
    /\ submitted' = overriddenTestsToTrigger
    /\ \E answer \in {"results", "noResults"} :
         /\ triggers' = answer
         /\ IF Len(tests) = 0
            THEN /\ reported' = Append(reported, Ev("logNoTest", 0))
                 /\ ret' = 0
                 /\ pc' = "done"
                 /\ UNCHANGED uncaught
            ELSE IF answer = "noResults"
            THEN /\ uncaught' = TRUE
                 /\ pc' = "done"
                 /\ UNCHANGED <<reported, ret>>
            ELSE /\ pc' = "poll"
                 /\ UNCHANGED <<reported, ret, uncaught>>
    /\ UNCHANGED otherThanRun
    /\ UNCHANGED <<publicIds, shouldOpenTunnel, configTunnel, testsToTrigger, tests,
                   overriddenTestsToTrigger, summary, tunnel, results, idx,
                   hasSucceeded>>

\* RunTestsThrows issuing the trigger request a second time after the error.
RunTestsThrowsAndRetries ==
    /\ pc = "trigger"
    /\ submitted' = overriddenTestsToTrigger
    /\ triggers' = "threw"
    /\ calls' = Append(calls, "runTests")
    /\ IF \E k \in 1..Len(calls) : calls[k] = "runTests"
       THEN uncaught' = TRUE /\ pc' = "done"
       ELSE UNCHANGED <<uncaught, pc>>
    /\ UNCHANGED otherThanRun
    /\ UNCHANGED <<publicIds, shouldOpenTunnel, configTunnel, testsToTrigger, tests,
                   overriddenTestsToTrigger, summary, tunnel, results, idx,
                   hasSucceeded, reported, ret>>

\* Line 89: runTests throws, outside of any try.
RunTestsThrows ==
    /\ pc = "trigger"
    /\ submitted' = overriddenTestsToTrigger
    /\ triggers' = "threw"
    /\ Reject("runTests")
    /\ UNCHANGED otherThanRun
    /\ UNCHANGED <<publicIds, shouldOpenTunnel, configTunnel, testsToTrigger, tests,
                   overriddenTestsToTrigger, summary, tunnel, results, idx,
                   hasSucceeded, reported, ret>>

\* Lines 104-117: the results are polled, the tests sorted, the report started.
WaitForResults ==
    /\ pc = "poll"
    /\ calls' = Append(calls, "waitForResults")
    /\ \E res \in [{t.public_id : t \in Range(tests)} -> PollResultLists] :
         /\ results' = res
         /\ tests' = SortTests(res, tests)
    /\ reported' = Append(reported, Ev("reportStart", 0))
    /\ hasSucceeded' = TRUE
    /\ idx' = 1
    /\ pc' = "evaluate"
    /\ UNCHANGED otherThanRun
    /\ UNCHANGED <<publicIds, shouldOpenTunnel, configTunnel, testsToTrigger,
                   overriddenTestsToTrigger, summary, tunnel, submitted, triggers,
                   ret, uncaught>>

\* Catch reporting the error and returning the verdict computed so far.
CatchKeepsVerdict ==
    /\ reported' = Append(reported, Ev("error", 0))
    /\ ret' = IF hasSucceeded THEN 0 ELSE 1
    /\ pc' = "finally"

\* Lines 141-144: an error thrown inside the try is reported; execute returns 1.
Catch ==
    /\ reported' = Append(reported, Ev("error", 0))
    /\ ret' = 1
    /\ pc' = "finally"

\* Line 104: waitForResults throws.
WaitForResultsThrows ==
    /\ pc = "poll"
    /\ calls' = Append(calls, "waitForResults")
    /\ Catch
    /\ UNCHANGED otherThanRun
    /\ UNCHANGED <<publicIds, shouldOpenTunnel, configTunnel, testsToTrigger, tests,
                   overriddenTestsToTrigger, summary, tunnel, submitted, triggers,
                   results, idx, hasSucceeded, uncaught>>

\* failsRun with the execution rule ignored: every failed test fails the run.
failsRunIgnoringRule(passed, test) == ~passed

\* Lines 122-128: a test that did not pass and is not NON_BLOCKING fails the run.
failsRun(passed, test) == ~passed /\ test.executionRule # NON_BLOCKING

\* EvaluateTest reporting testEnd for the failed tests only.
EvaluateTestReportsFailuresOnly ==
    /\ pc = "evaluate"
    /\ idx <= Len(tests)
    /\ LET test == tests[idx]
           testResults == results[test.public_id]
           passed == hasTestSucceeded(testResults)
       IN  /\ summary' = IF passed
                         THEN [summary EXCEPT !.passed = @ + 1]
                         ELSE [summary EXCEPT !.failed = @ + 1]
           /\ hasSucceeded' = IF failsRun(passed, test) THEN FALSE ELSE hasSucceeded
           /\ reported' = IF passed THEN reported
                          ELSE Append(reported, Ev("testEnd", test.public_id))
    /\ idx' = idx + 1
    /\ UNCHANGED otherThanRun
    /\ UNCHANGED <<pc, publicIds, shouldOpenTunnel, configTunnel, testsToTrigger,
                   tests, overriddenTestsToTrigger, tunnel, submitted,
                   triggers, results, calls, ret, uncaught>>

\* EvaluateTest counting a failed test only when it fails the run.
EvaluateTestCountsBlockingOnly ==
    /\ pc = "evaluate"
    /\ idx <= Len(tests)
    /\ LET test == tests[idx]
           testResults == results[test.public_id]
           passed == hasTestSucceeded(testResults)
       IN  /\ summary' = IF passed
                         THEN [summary EXCEPT !.passed = @ + 1]
                         ELSE IF failsRun(passed, test)
                         THEN [summary EXCEPT !.failed = @ + 1]
                         ELSE summary
           /\ hasSucceeded' = IF failsRun(passed, test) THEN FALSE ELSE hasSucceeded
           /\ reported' = Append(reported, Ev("testEnd", test.public_id))
    /\ idx' = idx + 1
    /\ UNCHANGED otherThanRun
    /\ UNCHANGED <<pc, publicIds, shouldOpenTunnel, configTunnel, testsToTrigger,
                   tests, overriddenTestsToTrigger, tunnel, submitted,
                   triggers, results, calls, ret, uncaught>>

\* Lines 118-132: one iteration of the loop over the sorted tests.
EvaluateTest ==
    /\ pc = "evaluate"
    /\ idx <= Len(tests)
    /\ LET test == tests[idx]
           testResults == results[test.public_id]
           passed == hasTestSucceeded(testResults)
       IN  /\ summary' = IF passed
                         THEN [summary EXCEPT !.passed = @ + 1]
                         ELSE [summary EXCEPT !.failed = @ + 1]
           /\ hasSucceeded' = IF failsRun(passed, test) THEN FALSE ELSE hasSucceeded
           /\ reported' = Append(reported, Ev("testEnd", test.public_id))
    /\ idx' = idx + 1
    /\ UNCHANGED otherThanRun
    /\ UNCHANGED <<pc, publicIds, shouldOpenTunnel, configTunnel, testsToTrigger,
                   tests, overriddenTestsToTrigger, tunnel, submitted,
                   triggers, results, calls, ret, uncaught>>

\* Lines 134-140: the run ends; the verdict becomes the return value.
RunEnd ==
    /\ pc = "evaluate"
    /\ idx > Len(tests)
    /\ reported' = Append(reported, Ev("runEnd", 0))
    /\ ret' = IF hasSucceeded THEN 0 ELSE 1
    /\ pc' = "finally"
    /\ UNCHANGED otherThanRun
    /\ UNCHANGED <<publicIds, shouldOpenTunnel, configTunnel, testsToTrigger, tests,
                   overriddenTestsToTrigger, summary, tunnel, submitted, triggers,
                   results, idx, hasSucceeded, calls, uncaught>>

\* Lines 110-134: hasTestSucceeded or a reporter call throws inside the try.
ReportingThrows ==
    /\ pc = "evaluate"
    /\ Catch
    /\ UNCHANGED otherThanRun
    /\ UNCHANGED <<publicIds, shouldOpenTunnel, configTunnel, testsToTrigger, tests,
                   overriddenTestsToTrigger, summary, tunnel, submitted, triggers,
                   results, idx, hasSucceeded, calls, uncaught>>

\* Lines 145-150: the finally block stops the tunnel when there is one.
StopTunnel ==
    /\ pc = "finally"
    /\ IF tunnel.defined
       THEN /\ tunnel' = [tunnel EXCEPT !.stopCalls = @ + 1]
            /\ calls' = Append(calls, "tunnel.stop")
       ELSE UNCHANGED <<tunnel, calls>>
    /\ pc' = "done"
    /\ UNCHANGED otherThanRun
    /\ UNCHANGED <<publicIds, shouldOpenTunnel, configTunnel, testsToTrigger, tests,
                   overriddenTestsToTrigger, summary, submitted, triggers, results,
                   idx, hasSucceeded, reported, ret, uncaught>>

Next ==
    \/ SelectTests
    \/ SelectTestsThrows
    \/ GetTestsToTrigger
    \/ GetTestsToTriggerThrows
    \/ GetPresignedURL
    \/ GetPresignedURLThrows
    \/ TunnelStart
    \/ TunnelStartFails
    \/ RunTests
    \/ RunTestsThrows
    \/ WaitForResults
    \/ WaitForResultsThrows
    \/ EvaluateTest
    \/ RunEnd
    \/ ReportingThrows
    \/ StopTunnel

Spec == Init /\ [][Next]_vars

\* =========================================================== getTestsList
\* execute is not running.
RunIdle ==
    /\ pc = "idle"
    /\ publicIds = <<>>
    /\ shouldOpenTunnel = "undefined"
    /\ configTunnel = FALSE
    /\ testsToTrigger = <<>>
    /\ tests = <<>>
    /\ overriddenTestsToTrigger = <<>>
    /\ summary = [passed |-> 0, failed |-> 0, skipped |-> 0]
    /\ tunnel = NoTunnel
    /\ submitted = <<>>
    /\ triggers = "none"
    /\ results = <<>>
    /\ idx = 0
    /\ hasSucceeded = TRUE
    /\ reported = <<>>
    /\ calls = <<>>
    /\ ret = -1
    /\ uncaught = FALSE

\* A Config (ConfigOverride) is a map from its present keys to their values;
\* headers is itself a map, startUrl a plain value.
EmptyConfig == [k \in {} |-> 0]

HeaderKeys == {"a", "b"}

HeaderMaps == UNION {[d -> 1..MaxValue] : d \in SUBSET HeaderKeys}

\* The object holding the keys of f and those of g.
Join(f, g) == [k \in DOMAIN f \cup DOMAIN g |-> IF k \in DOMAIN f THEN f[k] ELSE g[k]]

Configs ==
    {Join(hp, up) :
        hp \in {EmptyConfig} \cup {[k \in {"headers"} |-> h] : h \in HeaderMaps},
        up \in {EmptyConfig} \cup {[k \in {"startUrl"} |-> u] : u \in 1..MaxValue}}

\* An object spread in which the keys of the first object win.
SpreadFirstWins(first, second) ==
    [k \in DOMAIN first \cup DOMAIN second |->
        IF k \in DOMAIN first THEN first[k] ELSE second[k]]

\* Line 218, {...first, ...second}: the own keys of first, then those of
\* second, a key of second replacing the value first gave it.
Spread(first, second) ==
    [k \in DOMAIN first \cup DOMAIN second |->
        IF k \in DOMAIN second THEN second[k] ELSE first[k]]

InitMerge ==
    /\ RunIdle
    /\ PollIdle
    /\ UploadIdle
    /\ mpc = "map"
    /\ globalConfig \in Configs
    /\ testConfig \in Configs
    /\ effectiveConfig = EmptyConfig

\* Lines 216-220: the TriggerConfig of one test of a suite.
MergeConfig ==
    /\ mpc = "map"
    /\ effectiveConfig' = Spread(globalConfig, testConfig)
    /\ mpc' = "done"
    /\ UNCHANGED <<globalConfig, testConfig>>
    /\ UNCHANGED otherThanMerge

NextMerge == MergeConfig

SpecMerge == InitMerge /\ [][NextMerge]_vars

\* ========================================================= waitForResults
\* A PollResult, reduced to its resultID, result.passed and whether it is the
\* synthetic result of a timeout.
PollResult(id, passed, timedOut) ==
    [resultID |-> id, passed |-> passed, timedOut |-> timedOut]

\* The map m with result r appended to the list of public id pid.
AppendResult(m, pid, r) ==
    [k \in DOMAIN m \cup {pid} |->
        IF k = pid
        THEN Append(IF pid \in DOMAIN m THEN m[pid] ELSE <<>>, r)
        ELSE m[k]]

\* The map m with one result per id of ids appended, in the order of the ids;
\* passedOf gives result.passed of each, timedOut marks synthetic results.
RECURSIVE AppendResults(_, _, _, _)
AppendResults(m, ids, passedOf, timedOut) ==
    IF ids = {} THEN m
    ELSE LET id == CHOOSE x \in ids : \A y \in ids : x <= y
         IN  AppendResults(AppendResult(m, owner[id], PollResult(id, passedOf[id], timedOut)),
                           ids \ {id}, passedOf, timedOut)

InitPoll ==
    /\ RunIdle
    /\ MergeIdle
    /\ UploadIdle
    /\ wpc = "loop"
    /\ \E n \in 0..MaxInstances : owner \in [1..n -> 1..MaxPolledTests]
    /\ timeoutMs \in 0..MaxTimeout
    /\ elapsed = 0
    /\ outstanding = DOMAIN owner
    /\ polled = <<>>
    /\ pollCalls = 0
    /\ pollErrors = 0
    /\ outcome = "none"

\* One tick: after the poll interval, pollResults(outstanding) answers; every
\* finished result leaves the outstanding set and joins its test's list.
PollTick ==
    /\ wpc = "loop"
    /\ outstanding # {}
    /\ elapsed < timeoutMs
    /\ \E finished \in SUBSET outstanding :
         \E passedOf \in [finished -> BOOLEAN] :
             /\ outstanding' = outstanding \ finished
             /\ polled' = AppendResults(polled, finished, passedOf, FALSE)
    /\ pollCalls' = pollCalls + 1
    /\ elapsed' = elapsed + 1
    /\ UNCHANGED <<wpc, owner, timeoutMs, pollErrors, outcome>>
    /\ UNCHANGED otherThanPoll

\* PollTickError ending the loop with the error.
PollTickErrorAborts ==
    /\ wpc = "loop"
    /\ outstanding # {}
    /\ elapsed < timeoutMs
    /\ pollCalls' = pollCalls + 1
    /\ pollErrors' = pollErrors + 1
    /\ elapsed' = elapsed + 1
    /\ wpc' = "done"
    /\ outcome' = "ERROR"
    /\ UNCHANGED <<owner, timeoutMs, outstanding, polled>>
    /\ UNCHANGED otherThanPoll

\* PollTickError giving up on the lowest outstanding id.
PollTickErrorDropsId ==
    /\ wpc = "loop"
    /\ outstanding # {}
    /\ elapsed < timeoutMs
    /\ pollCalls' = pollCalls + 1
    /\ pollErrors' = pollErrors + 1
    /\ elapsed' = elapsed + 1
    /\ outstanding' = outstanding \ {CHOOSE x \in outstanding : \A y \in outstanding : x <= y}
    /\ UNCHANGED <<wpc, owner, timeoutMs, polled, outcome>>
    /\ UNCHANGED otherThanPoll

\* One tick whose pollResults call fails: nothing is resolved, the ids stay
\* outstanding and the call is made again on the next tick.
PollTickError ==
    /\ wpc = "loop"
    /\ outstanding # {}
    /\ elapsed < timeoutMs
    /\ pollCalls' = pollCalls + 1
    /\ pollErrors' = pollErrors + 1
    /\ elapsed' = elapsed + 1
    /\ UNCHANGED <<wpc, owner, timeoutMs, outstanding, polled, outcome>>
    /\ UNCHANGED otherThanPoll

\* The outstanding set is empty: COMPLETE.
PollComplete ==
    /\ wpc = "loop"
    /\ outstanding = {}
    /\ wpc' = "done"
    /\ outcome' = "COMPLETE"
    /\ UNCHANGED <<owner, timeoutMs, elapsed, outstanding, polled, pollCalls,
                   pollErrors>>
    /\ UNCHANGED otherThanPoll

\* PollTimeout taken only once the clock is past the deadline.
PollTimeoutStrictlyAfter ==
    /\ wpc = "loop"
    /\ outstanding # {}
    /\ elapsed > timeoutMs
    /\ polled' = AppendResults(polled, outstanding, [id \in outstanding |-> FALSE], TRUE)
    /\ wpc' = "done"
    /\ outcome' = "TIMEOUT"
    /\ UNCHANGED <<owner, timeoutMs, elapsed, outstanding, pollCalls, pollErrors>>
    /\ UNCHANGED otherThanPoll

\* PollTimeout returning only what was resolved.
PollTimeoutOmitsOutstanding ==
    /\ wpc = "loop"
    /\ outstanding # {}
    /\ elapsed >= timeoutMs
    /\ wpc' = "done"
    /\ outcome' = "TIMEOUT"
    /\ UNCHANGED <<owner, timeoutMs, elapsed, outstanding, polled, pollCalls,
                   pollErrors>>
    /\ UNCHANGED otherThanPoll

\* The deadline is reached with instances outstanding: TIMEOUT; each of them
\* gets a failed, timed-out result.
PollTimeout ==
    /\ wpc = "loop"
    /\ outstanding # {}
    /\ elapsed >= timeoutMs
    /\ polled' = AppendResults(polled, outstanding, [id \in outstanding |-> FALSE], TRUE)
    /\ wpc' = "done"
    /\ outcome' = "TIMEOUT"
    /\ UNCHANGED <<owner, timeoutMs, elapsed, outstanding, pollCalls, pollErrors>>
    /\ UNCHANGED otherThanPoll

NextPoll ==
    \/ PollTick
    \/ PollTickError
    \/ PollComplete
    \/ PollTimeout

SpecPoll == InitPoll /\ [][NextPoll]_vars

\* The timer of the loop always fires and every call answers or fails, so a
\* step of the loop that can be taken is taken.
SpecPollFair == SpecPoll /\ WF_vars(NextPoll)

\* ========================================================== UploadCommand
errorCodesNoRetry == {400, 403, 413}

SUPPORTED_SOURCES == {"snyk"}

INVALID_INPUT_EXIT_CODE == 1
MISSING_FILE_EXIT_CODE == 2
UPLOAD_ERROR_EXIT_CODE == 3

\* The retries option given to async-retry: retries after the first attempt.
Retries == 5

\* HTTP statuses an upload attempt is answered with when it fails.
Statuses == {400, 403, 404, 413, 500}

\* An error with an HTTP response, and one without (status 0: none).
HttpError(status) == [response |-> TRUE, status |-> status]
NetworkError == [response |-> FALSE, status |-> 0]

InitUpload ==
    /\ RunIdle
    /\ MergeIdle
    /\ PollIdle
    /\ upc = "validate"
    /\ opts \in [source : {"", "snyk", "other"}, service : BOOLEAN, appKey : BOOLEAN,
                 apiKey : BOOLEAN, releaseVersion : BOOLEAN, fileExists : BOOLEAN,
                 dryRun : BOOLEAN]
    /\ attempts = 0
    /\ onRetryCalls = 0
    /\ errors = <<>>
    /\ metrics = [success |-> 0, failed |-> 0, retries |-> 0]
    /\ exitCode = -1

\* ValidateInput reporting a missing file as invalid input.
ValidateInputFileAsInvalid ==
    /\ upc = "validate"
    /\ IF \/ opts.source = ""
          \/ opts.source \notin SUPPORTED_SOURCES
          \/ ~opts.service
          \/ ~opts.appKey
          \/ ~opts.apiKey
          \/ ~opts.fileExists
       THEN exitCode' = INVALID_INPUT_EXIT_CODE /\ upc' = "done"
       ELSE upc' = "upload" /\ UNCHANGED exitCode
    /\ UNCHANGED <<opts, attempts, onRetryCalls, errors, metrics>>
    /\ UNCHANGED otherThanUpload

\* Lines 59-114: the input is validated, then the file is looked for; only
\* then is the upload started.
ValidateInput ==
    /\ upc = "validate"
    /\ IF \/ opts.source = ""
          \/ opts.source \notin SUPPORTED_SOURCES
          \/ ~opts.service
          \/ ~opts.appKey
          \/ ~opts.apiKey
       THEN exitCode' = INVALID_INPUT_EXIT_CODE /\ upc' = "done"
       ELSE IF ~opts.fileExists
       THEN exitCode' = MISSING_FILE_EXIT_CODE /\ upc' = "done"
       ELSE upc' = "upload" /\ UNCHANGED exitCode
    /\ UNCHANGED <<opts, attempts, onRetryCalls, errors, metrics>>
    /\ UNCHANGED otherThanUpload

\* DryRunUpload sending the request all the same.
DryRunUploadStillUploads ==
    /\ upc = "upload"
    /\ opts.dryRun
    /\ attempts' = attempts + 1
    /\ metrics' = [metrics EXCEPT !.success = @ + 1]
    /\ exitCode' = 0
    /\ upc' = "done"
    /\ UNCHANGED <<opts, onRetryCalls, errors>>
    /\ UNCHANGED otherThanUpload

\* Lines 150-154, then 125-129 and 134-140: a dry run uploads nothing and
\* execute ends without a return value.
DryRunUpload ==
    /\ upc = "upload"
    /\ opts.dryRun
    /\ exitCode' = 0
    /\ upc' = "done"
    /\ UNCHANGED <<opts, attempts, onRetryCalls, errors, metrics>>
    /\ UNCHANGED otherThanUpload

\* Lines 156-158, then 125-129 and 134-140: the attempt succeeds.
UploadSucceeds ==
    /\ upc = "upload"
    /\ ~opts.dryRun
    /\ attempts' = attempts + 1
    /\ metrics' = [metrics EXCEPT !.success = @ + 1]
    /\ exitCode' = 0
    /\ upc' = "done"
    /\ UNCHANGED <<opts, onRetryCalls, errors>>
    /\ UNCHANGED otherThanUpload

\* shouldRetry retrying every error that carries a response.
shouldRetryAnyResponse(error) == error.response

\* shouldRetry looking at the status only: an error without a response is
\* retried.
shouldRetryUnlessListed(error) == error.status \notin errorCodesNoRetry

\* Line 160: the error is thrown again, to be retried, when it has a response
\* whose status is not one of errorCodesNoRetry; any other error bails.
shouldRetry(error) == error.response /\ error.status \notin errorCodesNoRetry

\* retriesLeft allowing one retry more.
retriesLeftOneMore(made) == made <= Retries + 1

\* async-retry with {retries: Retries}: after the made-th attempt failed, a
\* retry is scheduled as long as no more than Retries attempts were made.
retriesLeft(made) == made <= Retries

\* Lines 179-188 and 130-133: the retry gave up; the failure is counted and
\* execute returns UPLOAD_ERROR_EXIT_CODE.
UploadGivesUp ==
    /\ metrics' = [metrics EXCEPT !.failed = @ + 1]
    /\ exitCode' = UPLOAD_ERROR_EXIT_CODE
    /\ upc' = "done"
    /\ UNCHANGED onRetryCalls

\* Lines 156-163 and 172-175: the attempt fails with an error to retry; onRetry
\* runs and another attempt follows, unless the retries are used up.
UploadFailsRetryable ==
    /\ upc = "upload"
    /\ ~opts.dryRun
    /\ \E error \in {HttpError(st) : st \in Statuses} \cup {NetworkError} :
         /\ shouldRetry(error)
         /\ errors' = Append(errors, error)
    /\ attempts' = attempts + 1
    /\ IF retriesLeft(attempts')
       THEN /\ onRetryCalls' = onRetryCalls + 1
            /\ metrics' = [metrics EXCEPT !.retries = @ + 1]
            /\ UNCHANGED <<upc, exitCode>>
       ELSE UploadGivesUp
    /\ UNCHANGED opts
    /\ UNCHANGED otherThanUpload

\* Lines 156-168: the attempt fails with an error not to retry; bail(error)
\* ends the retry at once.
UploadFailsFatal ==
    /\ upc = "upload"
    /\ ~opts.dryRun
    /\ \E error \in {HttpError(st) : st \in Statuses} \cup {NetworkError} :
         /\ ~shouldRetry(error)
         /\ errors' = Append(errors, error)
    /\ attempts' = attempts + 1
    /\ UploadGivesUp
    /\ UNCHANGED opts
    /\ UNCHANGED otherThanUpload

NextUpload ==
    \/ ValidateInput
    \/ DryRunUpload
    \/ UploadSucceeds
    \/ UploadFailsRetryable
    \/ UploadFailsFatal

SpecUpload == InitUpload /\ [][NextUpload]_vars

\* ================================================================== claims
Terminated == pc = "done"

\* The try block ran to its end: the last event the reporter got is runEnd.
ReachedRunEnd ==
    /\ Len(reported) > 0
    /\ reported[Len(reported)].type = "runEnd"

\* C1: in every terminated run in which tunnel.start() was attempted,
\* tunnel.stop() has been called exactly once.
C1_StopCalledExactlyOnce ==
    (Terminated /\ tunnel.start # "none") => tunnel.stopCalls = 1

\* C2: no terminal state has the tunnel started successfully and not stopped.
C2_StartedTunnelIsStopped ==
    ~(Terminated /\ tunnel.start = "ok" /\ tunnel.stopCalls = 0)

\* A test of the evaluated list failed although it is blocking, stated on the
\* raw results: some result of it did not pass and its rule is not NON_BLOCKING.
BlockingTestFailed ==
    \E k \in 1..Len(tests) :
        /\ \E r \in 1..Len(results[tests[k].public_id]) :
               results[tests[k].public_id][r] = FALSE
        /\ tests[k].executionRule \in {BLOCKING, UNDEFINED}

\* C3: a run that went through evaluation returns 0 if and only if no
\* blocking test failed, and 1 otherwise.
C3_VerdictIffNoBlockingFailure ==
    (Terminated /\ ReachedRunEnd) =>
        /\ ret \in {0, 1}
        /\ ret = 0 <=> ~BlockingTestFailed

\* C3 witness: a run whose only failures are non-blocking tests returned 0.
C3_Witness ==
    /\ Terminated
    /\ ReachedRunEnd
    /\ ret = 0
    /\ summary.failed > 0

\* Position of the first occurrence of call c in calls (0: never called).
RECURSIVE FirstCall(_, _)
FirstCall(c, k) ==
    IF k > Len(calls) THEN 0
    ELSE IF calls[k] = c THEN k ELSE FirstCall(c, k + 1)

Called(c) == FirstCall(c, 1) # 0

ErrorReported == \E k \in 1..Len(reported) : reported[k].type = "error"

\* C4: a trigger submission that errors or returns no result handles ends the
\* run with the error logged by the reporter, exit status 1, and no poll.
C4_TriggerFailureIsFatal ==
    (Terminated /\ triggers \in {"threw", "noResults"}) =>
        /\ ret = 1
        /\ ErrorReported
        /\ ~Called("waitForResults")

\* C5: after a failed tunnel.start() the run is over with exit status 1, the
\* error reported, and neither a trigger request nor a poll issued.
C5_TunnelStartFailureAborts ==
    tunnel.start = "failed" =>
        /\ Terminated
        /\ ret = 1
        /\ ~uncaught
        /\ reported[Len(reported)].type = "error"
        /\ ~Called("runTests")
        /\ ~Called("waitForResults")

\* C5 witness: tunnel.start() was called and failed.
C5_Witness ==
    /\ tunnel.start = "failed"
    /\ Called("tunnel.start")

\* Test selection has completed (lines 57-58 did not throw).
SelectionDone == pc # "select" /\ ~Called("selectError")

\* C6: when selection yields no test, execute ends with 0 after the single
\* nothing-to-run notice, without fetching tests, asking for a presigned URL,
\* creating a tunnel or triggering.
C6_NothingToRun ==
    (SelectionDone /\ Len(testsToTrigger) = 0) =>
        /\ Terminated
        /\ ret = 0
        /\ ~uncaught
        /\ reported = <<Ev("logNoTestSuites", 0)>>
        /\ Range(calls) \subseteq {"getTestsList"}
        /\ tunnel = NoTunnel

\* C6 witness: no public id on the command line and an empty discovery.
C6_Witness ==
    /\ SelectionDone
    /\ publicIds = <<>>
    /\ Len(testsToTrigger) = 0
    /\ Called("getTestsList")

\* C7: a presigned URL is requested and a Tunnel created only when the tunnel
\* is requested and at least one test is going to be triggered.
C7_TunnelOnlyWithTests ==
    (Called("getPresignedURL") \/ tunnel.defined) =>
        /\ UseTunnel
        /\ Len(tests) > 0

\* C8: getPresignedURL comes after getTestsToTrigger returned and before the
\* trigger request; when the trigger request is issued in a run using the
\* tunnel, tunnel.start() has completed and every submitted override carries
\* the TunnelInfo.
C8_TunnelBeforeTrigger ==
    /\ Called("getPresignedURL") =>
           /\ Called("getTestsToTrigger")
           /\ FirstCall("getTestsToTrigger", 1) < FirstCall("getPresignedURL", 1)
           /\ Called("runTests") =>
                  FirstCall("getPresignedURL", 1) < FirstCall("runTests", 1)
    /\ (UseTunnel /\ Called("runTests")) =>
           /\ Called("getPresignedURL")
           /\ Called("tunnel.start")
           /\ FirstCall("tunnel.start", 1) < FirstCall("runTests", 1)
           /\ tunnel.start = "ok"
           /\ \A k \in 1..Len(submitted) : submitted[k].tunnel

\* C8 witness: a trigger request was issued through the tunnel for two tests.
C8_Witness ==
    /\ UseTunnel
    /\ Called("runTests")
    /\ Len(submitted) >= 2

\* The reportStart, testEnd and runEnd events of a reporter log, in order.
RECURSIVE Lifecycle(_)
Lifecycle(log) ==
    IF log = <<>> THEN <<>>
    ELSE LET rest == Lifecycle(SubSeq(log, 1, Len(log) - 1))
             last == log[Len(log)]
         IN  IF last.type \in {"reportStart", "testEnd", "runEnd"}
             THEN Append(rest, last)
             ELSE rest

\* One reportStart, one testEnd per test of ts in order, one runEnd.
ExpectedLifecycle(ts) ==
    <<Ev("reportStart", 0)>>
        \o [k \in 1..Len(ts) |-> Ev("testEnd", ts[k].public_id)]
        \o <<Ev("runEnd", 0)>>

IsPrefix(a, b) == Len(a) <= Len(b) /\ SubSeq(b, 1, Len(a)) = a

\* C9: the lifecycle events always form a prefix of reportStart, one testEnd
\* per sorted test, runEnd; a run that reached runEnd emitted exactly that
\* sequence, and runEnd is the last event the reporter received.
C9_ReporterLifecycle ==
    /\ IsPrefix(Lifecycle(reported), ExpectedLifecycle(tests))
    /\ (\E k \in 1..Len(reported) : reported[k].type = "runEnd") =>
           /\ Lifecycle(reported) = ExpectedLifecycle(tests)
           /\ ReachedRunEnd

\* C9 witness: a terminated run that reported three tests and then runEnd.
C9_Witness ==
    /\ Terminated
    /\ ReachedRunEnd
    /\ Len(tests) = 3
    /\ Len(Lifecycle(reported)) = 5

\* The tests have been sorted by line 107.
Sorted == Called("waitForResults") /\ pc = "evaluate"

TestFailed(t) == \E r \in 1..Len(results[t.public_id]) : ~results[t.public_id][r]

\* C10: in the sorted list every passing test precedes every failing test and,
\* among the failing tests, every non-blocking test precedes every blocking
\* one; the list is a permutation of the fetched tests; and the fetched list
\* [1(fail, blocking), 2(pass), 3(fail, non-blocking)] is sorted to [2, 3, 1].
C10_SortedByOutcome ==
    Sorted =>
        /\ \A a, b \in 1..Len(tests) :
               a < b =>
                   /\ ~(TestFailed(tests[a]) /\ ~TestFailed(tests[b]))
                   /\ ~(/\ TestFailed(tests[a])
                        /\ TestFailed(tests[b])
                        /\ tests[a].executionRule # NON_BLOCKING
                        /\ tests[b].executionRule = NON_BLOCKING)
        /\ Len(tests) = Len(submitted)
        /\ {t.public_id : t \in Range(tests)} = {o.public_id : o \in Range(submitted)}
        /\ (/\ Len(tests) = 3
            /\ \E t \in Range(tests) :
                   t.public_id = 1 /\ TestFailed(t) /\ t.executionRule = BLOCKING
            /\ \E t \in Range(tests) : t.public_id = 2 /\ ~TestFailed(t)
            /\ \E t \in Range(tests) :
                   t.public_id = 3 /\ TestFailed(t) /\ t.executionRule = NON_BLOCKING)
           => [k \in 1..3 |-> tests[k].public_id] = <<2, 3, 1>>

\* C10 witness: the list [1(fail, blocking), 2(pass), 3(fail, non-blocking)]
\* has been sorted.
C10_Witness ==
    /\ Sorted
    /\ [k \in 1..Len(tests) |-> tests[k].public_id] = <<2, 3, 1>>
    /\ TestFailed(tests[3]) /\ tests[3].executionRule = BLOCKING
    /\ TestFailed(tests[2]) /\ tests[2].executionRule = NON_BLOCKING
    /\ ~TestFailed(tests[1])

\* C12: with at least one public id on the command line the tests to trigger
\* are exactly those ids, each with the global config, and getTestsList (the
\* search query and file glob discovery) is not called; it is called only
\* when no public id was given.
C12_ExplicitIdsTakePrecedence ==
    /\ (SelectionDone /\ Len(publicIds) > 0) =>
           /\ Len(testsToTrigger) = Len(publicIds)
           /\ \A k \in 1..Len(publicIds) :
                  /\ testsToTrigger[k].id = publicIds[k]
                  /\ testsToTrigger[k].config = "global"
                  /\ testsToTrigger[k].suite = "CLI Suite"
           /\ ~Called("getTestsList")
    /\ Called("getTestsList") => Len(publicIds) = 0

\* C12 witness: two public ids were given and selected.
C12_Witness ==
    /\ SelectionDone
    /\ Len(publicIds) = 2
    /\ Len(testsToTrigger) = 2
    /\ pc = "getTests"

\* Every selected test was dropped as skipped by getTestsToTrigger.
AllSkipped ==
    /\ Called("getTestsToTrigger")
    /\ pc # "getTests"
    /\ Len(testsToTrigger) > 0
    /\ summary.skipped = Len(testsToTrigger)

TestEndReported(id) ==
    \E k \in 1..Len(reported) : reported[k] = Ev("testEnd", id)

\* C13: a skipped test is never submitted, polled, reported by testEnd or
\* counted as failed, and a terminated run whose selected tests were all
\* skipped returned 0 without any trigger request.
C13_SkippedTestsAreDropped ==
    /\ \A k \in 1..Len(testsToTrigger) :
           (/\ Called("getTestsToTrigger")
            /\ pc # "getTests"
            /\ \A j \in 1..Len(tests) : tests[j].public_id # testsToTrigger[k].id) =>
               /\ ~TestEndReported(testsToTrigger[k].id)
               /\ \A j \in 1..Len(submitted) :
                      submitted[j].public_id # testsToTrigger[k].id
               /\ testsToTrigger[k].id \notin DOMAIN results
    /\ AllSkipped => summary.failed = 0
    /\ (AllSkipped /\ Terminated) =>
           /\ ret = 0
           /\ ~Called("runTests")

\* ----------------------------------------------------------- getTestsList
\* The merge that combines nested maps: per-test entries win, and the entries
\* of a nested global map that the test does not override are kept.
DeepMerged(g, t) ==
    [k \in DOMAIN g \cup DOMAIN t |->
        IF k \in DOMAIN g /\ k \in DOMAIN t /\ k = "headers"
        THEN [h \in DOMAIN g[k] \cup DOMAIN t[k] |->
                 IF h \in DOMAIN t[k] THEN t[k][h] ELSE g[k][h]]
        ELSE IF k \in DOMAIN t THEN t[k] ELSE g[k]]

\* C11 as stated: the effective config is the merge of the global and the
\* per-test config that combines nested maps, per-test keys winning.
C11_NestedMapsAreCombined ==
    mpc = "done" => effectiveConfig = DeepMerged(globalConfig, testConfig)

\* C11 amended: the merge is shallow. The effective config has the keys of
\* both configs; a key of the per-test config carries the per-test value
\* whole, any other key the global value; a headers map given by the test
\* replaces the global headers map and keeps none of its entries.
C11_ShallowMerge ==
    mpc = "done" =>
        /\ DOMAIN effectiveConfig = DOMAIN globalConfig \cup DOMAIN testConfig
        /\ \A k \in DOMAIN testConfig : effectiveConfig[k] = testConfig[k]
        /\ \A k \in DOMAIN globalConfig \ DOMAIN testConfig :
               effectiveConfig[k] = globalConfig[k]
        /\ ("headers" \in DOMAIN testConfig /\ "headers" \in DOMAIN globalConfig) =>
               \A h \in DOMAIN globalConfig["headers"] \ DOMAIN testConfig["headers"] :
                   h \notin DOMAIN effectiveConfig["headers"]

\* C11 witness: global {headers: {a: 1}} and per-test {headers: {b: 2}} gave
\* {headers: {b: 2}}.
C11_Witness ==
    /\ mpc = "done"
    /\ DOMAIN globalConfig = {"headers"}
    /\ DOMAIN testConfig = {"headers"}
    /\ DOMAIN globalConfig["headers"] = {"a"} /\ globalConfig["headers"]["a"] = 1
    /\ DOMAIN testConfig["headers"] = {"b"} /\ testConfig["headers"]["b"] = 2
    /\ DOMAIN effectiveConfig["headers"] = {"b"} /\ effectiveConfig["headers"]["b"] = 2

\* --------------------------------------------------------- waitForResults
PollDone == wpc = "done"

TriggeredPublicIds == {owner[r] : r \in DOMAIN owner}

\* Result id r has a failed, timed-out entry in the list of its test.
TimedOutEntry(r) ==
    owner[r] \in DOMAIN polled /\
    \E k \in 1..Len(polled[owner[r]]) :
        polled[owner[r]][k] = PollResult(r, FALSE, TRUE)

\* C14: when waitForResults ends, by completion or by timeout, the keys of
\* the returned map are exactly the triggered public ids, each with at least
\* one entry, and on timeout every outstanding instance has a failed,
\* timed-out entry.
C14_KeysAreTriggeredPublicIds ==
    PollDone =>
        /\ outcome \in {"COMPLETE", "TIMEOUT"}
        /\ DOMAIN polled = TriggeredPublicIds
        /\ \A pid \in DOMAIN polled : Len(polled[pid]) >= 1
        /\ outcome = "TIMEOUT" => \A r \in outstanding : TimedOutEntry(r)

\* C14 witness: a timeout with one instance resolved and another outstanding.
C14_Witness ==
    /\ PollDone
    /\ outcome = "TIMEOUT"
    /\ outstanding # {}
    /\ outstanding # DOMAIN owner

\* The loop ended the way its state says: COMPLETE with nothing outstanding,
\* TIMEOUT with the deadline reached and every outstanding instance reported
\* as a timed-out failure.
PollEndedProperly ==
    PollDone =>
        /\ outcome \in {"COMPLETE", "TIMEOUT"}
        /\ outcome = "COMPLETE" <=> outstanding = {}
        /\ outcome = "TIMEOUT" =>
               /\ elapsed >= timeoutMs
               /\ \A r \in outstanding : TimedOutEntry(r)
        /\ (timeoutMs = 0 /\ outstanding # {}) =>
               /\ pollCalls = 0
               /\ elapsed = 0
               /\ outstanding = DOMAIN owner

\* C15: the poll loop always terminates, in COMPLETE when nothing is
\* outstanding or in TIMEOUT once the deadline is reached, whatever the remote
\* API answers; with timeoutMs = 0 and instances outstanding it ends at once,
\* without a poll, all of them reported as timed-out failures.
C15_PollLoopTerminates ==
    /\ <>PollDone
    /\ []PollEndedProperly

\* C15 witness: timeoutMs = 0 with instances outstanding ended in TIMEOUT.
C15_Witness ==
    /\ PollDone
    /\ timeoutMs = 0
    /\ outstanding # {}
    /\ outcome = "TIMEOUT"
    /\ \A r \in outstanding : TimedOutEntry(r)

\* Result id r has a finished (not synthetic) entry in map m.
FinishedEntry(m, r) ==
    owner[r] \in DOMAIN m /\
    \E k \in 1..Len(m[owner[r]]) :
        m[owner[r]][k].resultID = r /\ ~m[owner[r]][k].timedOut

\* C16: from one step of the loop to the next the outstanding set never
\* grows, an id leaves it only with a finished result newly returned for it,
\* and a tick that returns no finished result leaves it unchanged.
C16_OutstandingNeverGrows ==
    [][/\ outstanding' \subseteq outstanding
       /\ \A r \in outstanding \ outstanding' :
              FinishedEntry(polled', r) /\ ~FinishedEntry(polled, r)
       /\ (\A r \in outstanding : ~FinishedEntry(polled', r)) =>
              outstanding' = outstanding]_vars

\* C16 witness: after a poll, one instance is resolved and another outstanding.
C16_Witness ==
    /\ wpc = "loop"
    /\ pollCalls > 0
    /\ outstanding # {}
    /\ outstanding # DOMAIN owner

\* C17: a failed pollResults call leaves the loop running with the same
\* outstanding set and the same results; the loop ends only in COMPLETE or in
\* TIMEOUT at the deadline, and when every call failed all instances come
\* back as timed-out results.
C17_PollErrorsNeverAbort ==
    /\ [][pollErrors' > pollErrors =>
              /\ wpc' = "loop"
              /\ outstanding' = outstanding
              /\ polled' = polled]_vars
    /\ [](PollDone =>
              /\ outcome \in {"COMPLETE", "TIMEOUT"}
              /\ outcome = "TIMEOUT" => elapsed >= timeoutMs
              /\ (pollErrors = pollCalls /\ DOMAIN owner # {}) =>
                     /\ outcome = "TIMEOUT"
                     /\ \A r \in DOMAIN owner : TimedOutEntry(r))

\* C17 witness: every poll of the run failed and the loop ended in TIMEOUT.
C17_Witness ==
    /\ PollDone
    /\ pollErrors = 2
    /\ pollErrors = pollCalls
    /\ outcome = "TIMEOUT"

\* ---------------------------------------------------------- UploadCommand
UploadDone == upc = "done"

\* Every attempt made so far failed with an HTTP status other than 400, 403
\* and 413.
AllAttemptsFailedRetryably ==
    /\ attempts > 0
    /\ Len(errors) = attempts
    /\ \A k \in 1..Len(errors) :
           errors[k].response /\ errors[k].status \notin {400, 403, 413}

\* C18 as stated: api.uploadDependencies is attempted at most 5 times in one
\* run, the 5th failed attempt being the last.
C18_AtMostFiveAttempts ==
    /\ attempts <= 5
    /\ (AllAttemptsFailedRetryably /\ attempts = 5) =>
           (UploadDone /\ exitCode = 3)

\* C18 amended: api.uploadDependencies is attempted at most 6 times in one
\* run, the first attempt and 5 retries, with at most 5 onRetry callbacks;
\* when every attempt fails with a retryable HTTP error the run is still
\* going before the 6th attempt, and the 6th failed attempt is the last: the
\* command then fails with the upload-failure exit code 3.
C18_AtMostSixAttempts ==
    /\ attempts <= 6
    /\ onRetryCalls <= 5
    /\ AllAttemptsFailedRetryably =>
           /\ attempts < 6 => (upc = "upload" /\ exitCode = -1 /\ onRetryCalls = attempts)
           /\ attempts = 6 => (UploadDone /\ exitCode = 3 /\ onRetryCalls = 5)

\* C18 witness: six attempts failed with retryable errors and the command
\* returned 3.
C18_Witness ==
    /\ UploadDone
    /\ AllAttemptsFailedRetryably
    /\ attempts = 6
    /\ exitCode = 3

\* The last attempt failed with HTTP status 400, 403 or 413.
LastErrorNotRetried ==
    /\ Len(errors) > 0
    /\ Len(errors) = attempts
    /\ errors[Len(errors)].response
    /\ errors[Len(errors)].status \in {400, 403, 413}

\* The last attempt failed with another HTTP status.
LastErrorRetried ==
    /\ Len(errors) > 0
    /\ Len(errors) = attempts
    /\ errors[Len(errors)].response
    /\ errors[Len(errors)].status \notin {400, 403, 413}

\* C19: an attempt that fails with HTTP status 400, 403 or 413 ends the
\* command with exit code 3, without an onRetry callback for it and without
\* any later attempt; an attempt that fails with another HTTP status is
\* followed by an onRetry callback and the command goes on to the next attempt,
\* as long as attempts remain.
C19_NoRetryOnListedStatuses ==
    /\ [](LastErrorNotRetried =>
              /\ UploadDone
              /\ exitCode = 3
              /\ onRetryCalls = attempts - 1
              /\ metrics.retries = attempts - 1)
    /\ []((LastErrorRetried /\ attempts <= 5) =>
              /\ upc = "upload"
              /\ onRetryCalls = attempts
              /\ exitCode = -1)
    /\ [][LastErrorNotRetried =>
              (attempts' = attempts /\ onRetryCalls' = onRetryCalls)]_vars

\* C19 witness: a second attempt failed with status 403 and ended the command.
C19_Witness ==
    /\ LastErrorNotRetried
    /\ attempts = 2
    /\ errors[2].status = 403
    /\ UploadDone

InvalidInput ==
    \/ opts.source \notin {"snyk"}
    \/ ~opts.service
    \/ ~opts.appKey
    \/ ~opts.apiKey

\* C20: the failure codes are 1 for invalid input, 2 for a missing
\* dependencies file, 3 for an upload failure, each returned in exactly its
\* case; a run that returned 1 or 2 made no uploadDependencies call.
C20_DistinctFailureCodes ==
    UploadDone =>
        /\ exitCode \in {0, 1, 2, 3}
        /\ exitCode = 1 <=> InvalidInput
        /\ exitCode = 2 <=> (~InvalidInput /\ ~opts.fileExists)
        /\ exitCode = 3 <=>
               /\ ~InvalidInput
               /\ opts.fileExists
               /\ ~opts.dryRun
               /\ attempts > 0
               /\ Len(errors) = attempts
        /\ exitCode \in {1, 2} => (attempts = 0 /\ onRetryCalls = 0 /\ errors = <<>>)

\* C20 witness: valid input and a missing file ended with code 2.
C20_Witness ==
    /\ UploadDone
    /\ ~InvalidInput
    /\ ~opts.fileExists
    /\ exitCode = 2

\* ------------------------------------------------- RunTestCommand, continued
\* The try of line 102 has been entered, which takes a trigger that succeeded.
TryEntered == Called("waitForResults")

\* execute has left the try of lines 102-140.
TryLeft == TryEntered /\ pc \in {"finally", "done"}

RunEndReported == \E k \in 1..Len(reported) : reported[k].type = "runEnd"

\* The try was left before the loop of line 118 had gone through every test.
EvaluationCutShort == TryLeft /\ (results = <<>> \/ idx <= Len(tests))

\* C21: once the trigger has succeeded, a run that leaves the try without
\* having emitted runEnd (waitForResults, the evaluation or a reporter call
\* threw) has reported the error through reporter.error and returns 1, never
\* 0, and does not reject; a run cut short before every test was evaluated is
\* such a run; and a run that reported an error has emitted no runEnd.
C21_ThrowInTryReturnsOne ==
    /\ (TryLeft /\ ~RunEndReported) =>
           /\ ErrorReported
           /\ reported[Len(reported)].type = "error"
           /\ ret = 1
           /\ ~uncaught
    /\ EvaluationCutShort => ~RunEndReported
    /\ (TryEntered /\ ErrorReported) => (~RunEndReported /\ ret = 1)

\* C21 witness: a test that passed was evaluated, then the reporting threw,
\* with a tunnel open; the run is over.
C21_Witness ==
    /\ Terminated
    /\ TryEntered
    /\ ErrorReported
    /\ idx = 2
    /\ Len(tests) >= 2
    /\ hasSucceeded
    /\ tunnel.stopCalls = 1
    /\ ret = 1

TriggerCalls == {k \in 1..Len(calls) : calls[k] = "runTests"}

\* C22: in any run the trigger request is issued at most once: one call
\* carries the overrides of all the tests, and a run that ended after a
\* trigger call, failed or not, made exactly that one call.
C22_TriggeredAtMostOnce ==
    /\ Cardinality(TriggerCalls) <= 1
    /\ TryEntered =>
           (Cardinality(TriggerCalls) = 1 /\ Len(submitted) = Len(tests))
    /\ triggers = "threw" => (Cardinality(TriggerCalls) = 1 /\ Terminated)

\* C22 witness: three tests were triggered by one call and the run went to
\* its end.
C22_Witness ==
    /\ Terminated
    /\ RunEndReported
    /\ Len(tests) = 3
    /\ Len(submitted) = 3
    /\ Cardinality(TriggerCalls) = 1

\* The number of testEnd events in a reporter log.
TestEnds(log) == Cardinality({k \in 1..Len(log) : log[k].type = "testEnd"})

\* C23: a step changes summary.passed and summary.failed only by adding one to
\* exactly one of them, and it does so exactly when it reports one testEnd;
\* when runEnd has been emitted, passed + failed (both 0 before the
\* evaluation) is the number of testEnd events, which is the number of tests,
\* and failed is the number of tests that did not pass, the non-blocking ones
\* included.
C23_SummaryCountsEachTestOnce ==
    /\ [][LET dPassed == summary'.passed - summary.passed
              dFailed == summary'.failed - summary.failed
          IN  /\ dPassed \in {0, 1}
              /\ dFailed \in {0, 1}
              /\ dPassed + dFailed = TestEnds(reported') - TestEnds(reported)
              /\ dPassed + dFailed <= 1]_vars
    /\ [](RunEndReported =>
              /\ summary.passed + summary.failed = TestEnds(reported)
              /\ TestEnds(reported) = Len(tests)
              /\ summary.failed =
                     Cardinality({k \in 1..Len(tests) : TestFailed(tests[k])})
              /\ summary.passed =
                     Cardinality({k \in 1..Len(tests) : ~TestFailed(tests[k])}))

\* C23 witness: a run of three tests ended with verdict 0 although one
\* non-blocking test failed, and that test is counted in failed.
C23_Witness ==
    /\ Terminated
    /\ RunEndReported
    /\ ret = 0
    /\ Len(tests) = 3
    /\ summary.passed = 2
    /\ summary.failed = 1
    /\ \E k \in 1..Len(tests) :
           TestFailed(tests[k]) /\ tests[k].executionRule = NON_BLOCKING

\* Two tests with the same success state and the same blocking classification.
SameOutcome(t1, t2) ==
    /\ TestFailed(t1) = TestFailed(t2)
    /\ (t1.executionRule = NON_BLOCKING) = (t2.executionRule = NON_BLOCKING)

\* C24: over the tests of a run and their results, the comparator returns -1,
\* 0 or 1; it returns 0 exactly for two tests of the same success state and
\* the same blocking classification; compare(a, b) = -compare(b, a); it is
\* transitive; and in the list sorted at line 107 no test follows one it
\* should precede, and the tests that tie are in their original relative
\* order (the tests are fetched in increasing public_id order).
C24_ComparatorIsConsistent ==
    Sorted =>
        /\ \A a, b \in Range(tests) :
               /\ sortTestsByOutcome(results, a, b) \in {-1, 0, 1}
               /\ sortTestsByOutcome(results, a, b) = 0 <=> SameOutcome(a, b)
               /\ sortTestsByOutcome(results, a, b) =
                      0 - sortTestsByOutcome(results, b, a)
        /\ \A a, b, c \in Range(tests) :
               /\ (/\ sortTestsByOutcome(results, a, b) <= 0
                   /\ sortTestsByOutcome(results, b, c) <= 0)
                      => sortTestsByOutcome(results, a, c) <= 0
               /\ (/\ sortTestsByOutcome(results, a, b) < 0
                   /\ sortTestsByOutcome(results, b, c) <= 0)
                      => sortTestsByOutcome(results, a, c) < 0
        /\ \A i, j \in 1..Len(tests) :
               i < j =>
                   /\ sortTestsByOutcome(results, tests[i], tests[j]) <= 0
                   /\ sortTestsByOutcome(results, tests[i], tests[j]) = 0
                          => tests[i].public_id < tests[j].public_id

\* C24 witness: of three tests the last one fetched passed and was sorted
\* first; the other two failed, one BLOCKING and one without execution rule:
\* they tie and kept their order.
C24_Witness ==
    /\ Sorted
    /\ [k \in 1..Len(tests) |-> tests[k].public_id] = <<3, 1, 2>>
    /\ ~TestFailed(tests[1])
    /\ TestFailed(tests[2]) /\ tests[2].executionRule = BLOCKING
    /\ TestFailed(tests[3]) /\ tests[3].executionRule = UNDEFINED

\* ------------------------------------------------ UploadCommand, continued
\* C25: an attempt that failed with an error carrying no HTTP response is the
\* last attempt of the run: no onRetry callback follows it, the failure is
\* counted once and the command returns 3; when it is the first attempt,
\* exactly one uploadDependencies call was made.
C25_NoResponseErrorIsNotRetried ==
    /\ \A k \in 1..Len(errors) :
           ~errors[k].response =>
               /\ k = Len(errors)
               /\ attempts = k
               /\ onRetryCalls = k - 1
               /\ metrics.retries = k - 1
               /\ metrics.failed = 1
               /\ metrics.success = 0
               /\ UploadDone
               /\ exitCode = 3
    /\ (Len(errors) > 0 /\ ~errors[1].response) =>
           (attempts = 1 /\ onRetryCalls = 0)

\* C25 witness: the first attempt failed without a response and the command
\* returned 3.
C25_Witness ==
    /\ UploadDone
    /\ Len(errors) = 1
    /\ ~errors[1].response
    /\ attempts = 1
    /\ exitCode = 3

\* C26: in a dry run no uploadDependencies call is made, no onRetry callback
\* runs, none of the success, failed and retries metrics is incremented, and
\* the command, once its input passed the validation and its file was found,
\* ends without a failure exit code.
C26_DryRunUploadsNothing ==
    opts.dryRun =>
        /\ attempts = 0
        /\ onRetryCalls = 0
        /\ errors = <<>>
        /\ metrics.success = 0
        /\ metrics.failed = 0
        /\ metrics.retries = 0
        /\ exitCode # 3
        /\ (UploadDone /\ ~InvalidInput /\ opts.fileExists) => exitCode = 0

\* C26 witness: a dry run with valid input and an existing file is over.
C26_Witness ==
    /\ UploadDone
    /\ opts.dryRun
    /\ ~InvalidInput
    /\ opts.fileExists
    /\ attempts = 0
    /\ exitCode = 0

====
